---- MODULE Spec2Model ----
(***************************************************************************)
(* Ownership state machine of the stdio FILE* wrappers xtr::CFile          *)
(* (include/CFile.hpp) and xtr::cfile (include/cfile.hpp), together with   *)
(* the access-mode translation both of them carry.                         *)
(*                                                                         *)
(* The platform's stream API (std::fopen, std::fclose, std::freopen,       *)
(* std::tmpfile and the pass-through calls) is an instrumented stub: every *)
(* call an operation makes is logged in last.calls, and every fclose on a  *)
(* stream is counted in closeCount.  A handle is a pointer value: once its *)
(* stream is closed the platform may return the same value for a later     *)
(* open.  assert() is modelled as written, that is as a trap that ends the *)
(* program (NDEBUG is not defined anywhere in the sources).  A platform    *)
(* call whose behaviour is undefined (a null, a closed or an indeterminate *)
(* pointer) either crashes the program or returns, with any status.        *)
(***************************************************************************)
EXTENDS Integers, Sequences, FiniteSets, TLC

\* ---- bounds ----
NumInst == 2
MaxHandle == 2
MaxClose == 2

\* ---- pointers ----
NULL == 0
Insts == 1..NumInst
Handles == 1..MaxHandle
Ptr == {NULL} \cup Handles

\* ---- enum class Mode / enum class mode ----
Mode_Read == 1
Mode_Write == 2
Mode_Append == 4
Mode_Binary == 8
Mode_Extended == 16
Flags == {Mode_Read, Mode_Write, Mode_Append, Mode_Binary, Mode_Extended}

\* bitwise or of two underlying values
RECURSIVE BitOr(_, _)
BitOr(a, b) ==
    IF a = 0 THEN b
    ELSE IF b = 0 THEN a
    ELSE (IF a % 2 = 1 \/ b % 2 = 1 THEN 1 ELSE 0) + 2 * BitOr(a \div 2, b \div 2)

\* operator| of CFile::Mode
ModeOr(rhs, lhs) == BitOr(rhs, lhs)

\* operator| of cfile::mode
mode_or(rhs, lhs) == BitOr(rhs, lhs)

\* the return statement after assert(false): the translation trapped
AssertFail == "assert(false)"

\* to_cstring with the Append|Binary case returning the Write|Binary string
to_cstring_AppendBinaryAsWrite(mode) ==
    CASE mode = Mode_Read -> "r"
      [] mode = Mode_Write -> "w"
      [] mode = Mode_Append -> "a"
      [] mode = ModeOr(Mode_Read, Mode_Extended) -> "r+"
      [] mode = ModeOr(Mode_Write, Mode_Extended) -> "w+"
      [] mode = ModeOr(Mode_Append, Mode_Extended) -> "a+"
      [] mode = ModeOr(Mode_Read, Mode_Binary) -> "rb"
      [] mode = ModeOr(Mode_Write, Mode_Binary) -> "wb"
      [] mode = ModeOr(Mode_Append, Mode_Binary) -> "wb"
      [] mode = ModeOr(ModeOr(Mode_Read, Mode_Binary), Mode_Extended) -> "rb+"
      [] mode = ModeOr(ModeOr(Mode_Write, Mode_Binary), Mode_Extended) -> "wb+"
      [] mode = ModeOr(ModeOr(Mode_Append, Mode_Binary), Mode_Extended) -> "ab+"
      [] OTHER -> AssertFail

\* CFile::to_cstring(Mode)
to_cstring(mode) ==
    CASE mode = Mode_Read -> "r"
      [] mode = Mode_Write -> "w"
      [] mode = Mode_Append -> "a"
      [] mode = ModeOr(Mode_Read, Mode_Extended) -> "r+"
      [] mode = ModeOr(Mode_Write, Mode_Extended) -> "w+"
      [] mode = ModeOr(Mode_Append, Mode_Extended) -> "a+"
      [] mode = ModeOr(Mode_Read, Mode_Binary) -> "rb"
      [] mode = ModeOr(Mode_Write, Mode_Binary) -> "wb"
      [] mode = ModeOr(Mode_Append, Mode_Binary) -> "ab"
      [] mode = ModeOr(ModeOr(Mode_Read, Mode_Binary), Mode_Extended) -> "rb+"
      [] mode = ModeOr(ModeOr(Mode_Write, Mode_Binary), Mode_Extended) -> "wb+"
      [] mode = ModeOr(ModeOr(Mode_Append, Mode_Binary), Mode_Extended) -> "ab+"
      [] OTHER -> AssertFail

\* cfile::to_access_mode_string(mode)
to_access_mode_string(access_mode) ==
    CASE access_mode = Mode_Read -> "r"
      [] access_mode = Mode_Write -> "w"
      [] access_mode = Mode_Append -> "a"
      [] access_mode = mode_or(Mode_Read, Mode_Extended) -> "r+"
      [] access_mode = mode_or(Mode_Write, Mode_Extended) -> "w+"
      [] access_mode = mode_or(Mode_Append, Mode_Extended) -> "a+"
      [] access_mode = mode_or(Mode_Read, Mode_Binary) -> "rb"
      [] access_mode = mode_or(Mode_Write, Mode_Binary) -> "wb"
      [] access_mode = mode_or(Mode_Append, Mode_Binary) -> "ab"
      [] access_mode = mode_or(mode_or(Mode_Read, Mode_Binary), Mode_Extended) -> "rb+"
      [] access_mode = mode_or(mode_or(Mode_Write, Mode_Binary), Mode_Extended) -> "wb+"
      [] access_mode = mode_or(mode_or(Mode_Append, Mode_Binary), Mode_Extended) -> "ab+"
      [] OTHER -> AssertFail

\* the value a caller builds from a set of flags with operator|
RECURSIVE OrAll(_)
OrAll(S) ==
    IF S = {} THEN 0
    ELSE LET f == CHOOSE x \in S : TRUE IN BitOr(f, OrAll(S \ {f}))

\* every value of the enumeration a caller can form from the five flags
ModeValues == {OrAll(S) : S \in SUBSET Flags}

VARIABLES
    impl,        \* which header the program uses: "CFile" or "cfile"
    live,        \* live[i]: instance i is between construction and destruction
    stream,      \* stream[i]: the member stream / m_stream of instance i
    status,      \* status[h]: platform state of handle h
    closeCount,  \* closeCount[h]: std::fclose calls made on h since h was opened
    rel,         \* the release being watched: instance, handle, handed back since
    trap,        \* "none", "assert" (assert failed) or "crash" (undefined call)
    last         \* the last operation, its return value and its platform calls

vars == <<impl, live, stream, status, closeCount, rel, trap, last>>

Call(f, p, m, r) == [f |-> f, p |-> p, m |-> m, r |-> r]
Op(op, self, other, arg, ret, calls) ==
    [op |-> op, self |-> self, other |-> other, arg |-> arg, ret |-> ret,
     calls |-> calls]

\* the stub watches one release() at a time: which instance released which
\* handle, and whether the handle has been handed back to that instance since
NoRel == [inst |-> 0, ptr |-> NULL, back |-> FALSE]

\* handing pointer p to instance i
HandIn(r, i, p) ==
    IF r.inst = i /\ r.ptr = p /\ p # NULL THEN [r EXCEPT !.back = TRUE] ELSE r

\* a new instance is constructed in slot i
Forget(r, i) == IF r.inst = i THEN NoRel ELSE r

\* ---- platform stub ----

\* the fclose counter is capped: no call is modelled past MaxClose
CloseOK(p) == p \in Handles => closeCount[p] < MaxClose

Counted(cc, p) == IF p \in Handles THEN [cc EXCEPT ![p] = @ + 1] ELSE cc

\* std::fclose(p): an open stream is closed and the platform reports 0 or EOF;
\* any other pointer is undefined: the call crashes, or returns 0 or EOF
FcloseOutcomes(p, st, cc) ==
    IF p \in Handles /\ st[p] = "open"
    THEN {[ret |-> r, crash |-> FALSE,
           status |-> [st EXCEPT ![p] = "closed"],
           closeCount |-> Counted(cc, p)] : r \in {0, -1}}
    ELSE {[ret |-> -1, crash |-> TRUE, status |-> st,
           closeCount |-> Counted(cc, p)]}
         \cup {[ret |-> r, crash |-> FALSE, status |-> st,
                closeCount |-> Counted(cc, p)] : r \in {0, -1}}

\* std::fopen / std::tmpfile: a null pointer, a pointer value never returned
\* before, or the pointer value of a stream that has been closed
Unused(st) == {h \in Handles : st[h] = "unused"}
FopenOutcomes(st) ==
    {NULL}
    \cup {h \in Handles : st[h] = "closed"}
    \cup (IF Unused(st) = {} THEN {}
          ELSE {CHOOSE h \in Unused(st) : \A g \in Unused(st) : h <= g})

\* the platform state once an open has returned h: a new stream lives at h
Opened(st, h) == IF h = NULL THEN st ELSE [st EXCEPT ![h] = "open"]
Uncounted(cc, h) == IF h = NULL THEN cc ELSE [cc EXCEPT ![h] = 0]

\* std::freopen(name, mode, p): an open stream is re-targeted (same handle) or,
\* on failure, closed with a null result; any other pointer is undefined: the
\* call crashes, fails, or returns the pointer it was given
FreopenOutcomes(p, st) ==
    IF p \in Handles /\ st[p] = "open"
    THEN {[ret |-> p, crash |-> FALSE, status |-> st],
          [ret |-> NULL, crash |-> FALSE, status |-> [st EXCEPT ![p] = "closed"]]}
    ELSE {[ret |-> NULL, crash |-> c, status |-> st] : c \in BOOLEAN}
         \cup (IF p \in Handles
               THEN {[ret |-> p, crash |-> FALSE, status |-> st]} ELSE {})

\* the mode translation of the header in use
ModeString(m) ==
    IF impl = "CFile" THEN to_cstring(m) ELSE to_access_mode_string(m)

Init ==
    /\ impl \in {"CFile", "cfile"}
    /\ live = [i \in Insts |-> FALSE]
    /\ stream = [i \in Insts |-> NULL]
    /\ status = [h \in Handles |-> "unused"]
    /\ closeCount = [h \in Handles |-> 0]
    /\ rel = NoRel
    /\ trap = "none"
    /\ last = Op("init", 0, 0, 0, 0, <<>>)

\* the program stops inside an operation: nothing but the log changes
Stop(kind, op, i, arg, calls, st, cc) ==
    /\ trap' = kind
    /\ last' = Op(op, i, 0, arg, 0, calls)
    /\ status' = st
    /\ closeCount' = cc
    /\ UNCHANGED <<impl, live, stream, rel>>

\* ---- construction ----

\* CFile() / cfile(): "value" is T f{}; "default" is T f;
\* CFile::stream has the initializer {}; cfile::m_stream has none, so
\* default-initialization leaves it indeterminate
DefaultInitValues(form) ==
    IF impl = "cfile" /\ form = "default" THEN Ptr ELSE {NULL}

DefaultConstruct(i, form) ==
    /\ trap = "none" /\ ~live[i]
    /\ \E p \in DefaultInitValues(form) :
          stream' = [stream EXCEPT ![i] = p]
    /\ live' = [live EXCEPT ![i] = TRUE]
    /\ rel' = Forget(rel, i)
    /\ last' = Op("default_ctor", i, 0, 0, 0, <<>>)
    /\ UNCHANGED <<impl, status, closeCount, trap>>

\* CFile(std::FILE *other) / cfile(std::FILE *other)
AdoptConstruct(i, other) ==
    /\ trap = "none" /\ ~live[i]
    /\ stream' = [stream EXCEPT ![i] = other]
    /\ live' = [live EXCEPT ![i] = TRUE]
    /\ rel' = Forget(rel, i)
    /\ last' = Op("adopt_ctor", i, 0, other, 0, <<>>)
    /\ UNCHANGED <<impl, status, closeCount, trap>>

\* CFile(const T &filename, const U &mode) / cfile(const char *, const Type &)
OpenConstruct(i, m) ==
    /\ trap = "none" /\ ~live[i]
    /\ LET s == ModeString(m) IN
       IF s = AssertFail
       THEN Stop("assert", "open_ctor", i, m, <<>>, status, closeCount)
       ELSE \E h \in FopenOutcomes(status) :
              /\ stream' = [stream EXCEPT ![i] = h]
              /\ status' = Opened(status, h)
              /\ closeCount' = Uncounted(closeCount, h)
              /\ live' = [live EXCEPT ![i] = TRUE]
              /\ rel' = Forget(rel, i)
              /\ last' = Op("open_ctor", i, 0, m, h, <<Call("fopen", NULL, s, h)>>)
              /\ UNCHANGED <<impl, trap>>

\* CFile(CFile &&other) / cfile(cfile &&other)
MoveConstruct(i, other) ==
    /\ trap = "none" /\ ~live[i] /\ live[other]
    /\ stream' = [stream EXCEPT ![i] = stream[other], ![other] = NULL]
    /\ live' = [live EXCEPT ![i] = TRUE]
    /\ rel' = Forget(rel, i)
    /\ last' = Op("move_ctor", i, other, 0, 0, <<>>)
    /\ UNCHANGED <<impl, status, closeCount, trap>>

\* static CFile::tmpfile() / cfile::tmpfile(): CFile{std::tmpfile()}
Tmpfile(i) ==
    /\ trap = "none" /\ ~live[i]
    /\ \E h \in FopenOutcomes(status) :
          /\ stream' = [stream EXCEPT ![i] = h]
          /\ status' = Opened(status, h)
          /\ closeCount' = Uncounted(closeCount, h)
          /\ last' = Op("tmpfile", i, 0, 0, h, <<Call("tmpfile", NULL, "", h)>>)
    /\ live' = [live EXCEPT ![i] = TRUE]
    /\ rel' = Forget(rel, i)
    /\ UNCHANGED <<impl, trap>>

\* ---- assignment and destruction ----

\* the statements of operator=(CFile &&) after the conditional fclose
MoveAssignTail(i, other, calls, st, cc) ==
    /\ stream' = [stream EXCEPT ![other] = NULL, ![i] = stream[other]]
    /\ rel' = HandIn(rel, i, stream[other])
    /\ status' = st
    /\ closeCount' = cc
    /\ last' = Op("move_assign", i, other, 0, 0, calls)
    /\ UNCHANGED <<impl, live, trap>>

\* CFile &operator=(CFile &&other) / cfile &operator=(cfile &&other)
MoveAssign(i, other) ==
    /\ trap = "none" /\ live[i] /\ live[other]
    /\ CloseOK(stream[i])
    /\ IF stream[i] # NULL
       THEN \E o \in FcloseOutcomes(stream[i], status, closeCount) :
              LET calls == <<Call("fclose", stream[i], "", o.ret)>> IN
              IF o.crash
              THEN Stop("crash", "move_assign", i, 0, calls, o.status, o.closeCount)
              ELSE MoveAssignTail(i, other, calls, o.status, o.closeCount)
       ELSE MoveAssignTail(i, other, <<>>, status, closeCount)

\* the end of the lifetime once ~CFile() has returned
DestroyTail(i, calls, st, cc) ==
    /\ stream' = [stream EXCEPT ![i] = NULL]
    /\ live' = [live EXCEPT ![i] = FALSE]
    /\ status' = st
    /\ closeCount' = cc
    /\ last' = Op("dtor", i, 0, 0, 0, calls)
    /\ UNCHANGED <<impl, rel, trap>>

\* ~CFile() / ~cfile()
Destroy(i) ==
    /\ trap = "none" /\ live[i]
    /\ CloseOK(stream[i])
    /\ IF stream[i] # NULL
       THEN \E o \in FcloseOutcomes(stream[i], status, closeCount) :
              LET calls == <<Call("fclose", stream[i], "", o.ret)>> IN
              IF o.crash
              THEN Stop("crash", "dtor", i, 0, calls, o.status, o.closeCount)
              ELSE DestroyTail(i, calls, o.status, o.closeCount)
       ELSE DestroyTail(i, <<>>, status, closeCount)

\* ---- reset, release, get ----

ResetTail(i, result, calls, st, cc) ==
    /\ stream' = [stream EXCEPT ![i] = NULL]
    /\ status' = st
    /\ closeCount' = cc
    /\ last' = Op("reset", i, 0, 0, result, calls)
    /\ UNCHANGED <<impl, live, rel, trap>>

\* int reset()
Reset(i) ==
    /\ trap = "none" /\ live[i]
    /\ CloseOK(stream[i])
    /\ IF stream[i] # NULL
       THEN \E o \in FcloseOutcomes(stream[i], status, closeCount) :
              LET calls == <<Call("fclose", stream[i], "", o.ret)>> IN
              IF o.crash
              THEN Stop("crash", "reset", i, 0, calls, o.status, o.closeCount)
              ELSE ResetTail(i, o.ret, calls, o.status, o.closeCount)
       ELSE ResetTail(i, 0, <<>>, status, closeCount)

ResetAdoptTail(i, other, result, calls, st, cc) ==
    /\ stream' = [stream EXCEPT ![i] = other]
    /\ rel' = HandIn(rel, i, other)
    /\ status' = st
    /\ closeCount' = cc
    /\ last' = Op("reset_adopt", i, 0, other, result, calls)
    /\ UNCHANGED <<impl, live, trap>>

\* int reset(std::FILE *other)
ResetAdopt(i, other) ==
    /\ trap = "none" /\ live[i]
    /\ CloseOK(stream[i])
    /\ IF stream[i] # NULL
       THEN \E o \in FcloseOutcomes(stream[i], status, closeCount) :
              LET calls == <<Call("fclose", stream[i], "", o.ret)>> IN
              IF o.crash
              THEN Stop("crash", "reset_adopt", i, other, calls, o.status, o.closeCount)
              ELSE ResetAdoptTail(i, other, o.ret, calls, o.status, o.closeCount)
       ELSE ResetAdoptTail(i, other, 0, <<>>, status, closeCount)

\* release() without the assignment stream = nullptr
Release_KeepsStream(i, watch) ==
    /\ trap = "none" /\ live[i]
    /\ LET result == stream[i] IN
       /\ rel' = IF result # NULL /\ (watch \/ (rel.inst = i /\ rel.ptr = result))
                 THEN [inst |-> i, ptr |-> result, back |-> FALSE]
                 ELSE rel
       /\ last' = Op("release", i, 0, 0, result, <<>>)
    /\ UNCHANGED <<impl, live, stream, status, closeCount, trap>>

\* std::FILE *release(); watch: the stub starts watching this release
Release(i, watch) ==
    /\ trap = "none" /\ live[i]
    /\ LET result == stream[i] IN
       /\ stream' = [stream EXCEPT ![i] = NULL]
       /\ rel' = IF result # NULL /\ (watch \/ (rel.inst = i /\ rel.ptr = result))
                 THEN [inst |-> i, ptr |-> result, back |-> FALSE]
                 ELSE rel
       /\ last' = Op("release", i, 0, 0, result, <<>>)
    /\ UNCHANGED <<impl, live, status, closeCount, trap>>

\* std::FILE *&get() / std::FILE *get() const: the caller reads the pointer
Get(i) ==
    /\ trap = "none" /\ live[i]
    /\ last' = Op("get", i, 0, 0, stream[i], <<>>)
    /\ UNCHANGED <<impl, live, stream, status, closeCount, rel, trap>>

\* f.get() = p: CFile::get() returns std::FILE *&, a reference to the member,
\* so the caller can store a pointer in it; cfile::get() returns by value
GetAssign(i, p) ==
    /\ trap = "none" /\ live[i] /\ impl = "CFile"
    /\ stream' = [stream EXCEPT ![i] = p]
    /\ rel' = HandIn(rel, i, p)
    /\ last' = Op("get_assign", i, 0, p, 0, <<>>)
    /\ UNCHANGED <<impl, live, status, closeCount, trap>>

\* ---- file access ----

\* CFile &fopen(const T &filename, const U &mode)
Fopen(i, m) ==
    /\ trap = "none" /\ live[i]
    /\ IF stream[i] # NULL
       THEN Stop("assert", "fopen", i, m, <<>>, status, closeCount)
       ELSE LET s == ModeString(m) IN
            IF s = AssertFail
            THEN Stop("assert", "fopen", i, m, <<>>, status, closeCount)
            ELSE \E h \in FopenOutcomes(status) :
                   /\ stream' = [stream EXCEPT ![i] = h]
                   /\ status' = Opened(status, h)
                   /\ closeCount' = Uncounted(closeCount, h)
                   /\ rel' = HandIn(rel, i, h)
                   /\ last' = Op("fopen", i, 0, m, h, <<Call("fopen", NULL, s, h)>>)
                   /\ UNCHANGED <<impl, live, trap>>

\* CFile &freopen(const T &filename, const U &mode)
Freopen(i, m) ==
    /\ trap = "none" /\ live[i]
    /\ LET s == ModeString(m) IN
       IF s = AssertFail
       THEN Stop("assert", "freopen", i, m, <<>>, status, closeCount)
       ELSE \E o \in FreopenOutcomes(stream[i], status) :
              LET calls == <<Call("freopen", stream[i], s, o.ret)>> IN
              IF o.crash
              THEN Stop("crash", "freopen", i, m, calls, o.status, closeCount)
              ELSE /\ stream' = [stream EXCEPT ![i] = o.ret]
                   /\ status' = o.status
                   /\ rel' = HandIn(rel, i, o.ret)
                   /\ last' = Op("freopen", i, 0, m, o.ret, calls)
                   /\ UNCHANGED <<impl, live, closeCount, trap>>

\* int fclose()
Fclose(i) ==
    /\ trap = "none" /\ live[i]
    /\ CloseOK(stream[i])
    /\ \E o \in FcloseOutcomes(stream[i], status, closeCount) :
          LET calls == <<Call("fclose", stream[i], "", o.ret)>> IN
          IF o.crash
          THEN Stop("crash", "fclose", i, 0, calls, o.status, o.closeCount)
          ELSE /\ stream' = [stream EXCEPT ![i] = NULL]
               /\ status' = o.status
               /\ closeCount' = o.closeCount
               /\ last' = Op("fclose", i, 0, 0, o.ret, calls)
               /\ UNCHANGED <<impl, live, rel, trap>>

\* ---- pass-through input/output ----

PassThrough ==
    {"fflush", "setbuf", "setvbuf", "fread", "fwrite", "fgetc", "fgets",
     "fputc", "fputs", "ungetc", "fscanf", "vfscanf", "fprintf", "vfprintf",
     "ftell", "fgetpos", "fseek", "fsetpos", "rewind", "clearerr", "feof",
     "ferror"}

\* the platform call f(p): defined on an open stream, and for fflush on a null
\* pointer (all streams are flushed); undefined on any other pointer
IOCrashes(f, p) ==
    IF (p \in Handles /\ status[p] = "open") \/ (f = "fflush" /\ p = NULL)
    THEN {FALSE} ELSE BOOLEAN

\* every pass-through member: return std::f(..., stream)
IO(i, f) ==
    /\ trap = "none" /\ live[i] /\ f \in PassThrough
    /\ \E c \in IOCrashes(f, stream[i]) :
          /\ trap' = IF c THEN "crash" ELSE "none"
          /\ last' = Op("io", i, 0, 0, 0, <<Call("io", stream[i], "", 0)>>)
    /\ UNCHANGED <<impl, live, stream, status, closeCount, rel>>

\* the pass-through members the specification calls: the one whose platform
\* call is defined on a null pointer, a transfer and a flag query
IOSample == {"fflush", "fread", "ferror"}

\* ---- the program ----

\* the access modes the ownership specification opens files with: a text
\* mode, a binary update mode and a combination outside the table
OwnModes == {Mode_Read, ModeOr(ModeOr(Mode_Write, Mode_Binary), Mode_Extended),
             ModeOr(Mode_Read, Mode_Write)}

\* pointer values a caller can pass as std::FILE *: a null pointer, or any
\* pointer the platform has returned (get() and release() hand them out)
CallerPtrs == {NULL} \cup {h \in Handles : status[h] # "unused"}

Next ==
    \/ \E i \in Insts, form \in {"default", "value"} : DefaultConstruct(i, form)
    \/ \E i \in Insts, p \in CallerPtrs : AdoptConstruct(i, p)
    \/ \E i \in Insts, m \in OwnModes : OpenConstruct(i, m)
    \/ \E i \in Insts, j \in Insts : MoveConstruct(i, j)
    \/ \E i \in Insts : Tmpfile(i)
    \/ \E i \in Insts, j \in Insts : MoveAssign(i, j)
    \/ \E i \in Insts : Destroy(i)
    \/ \E i \in Insts : Reset(i)
    \/ \E i \in Insts, p \in CallerPtrs : ResetAdopt(i, p)
    \/ \E i \in Insts, watch \in BOOLEAN : Release(i, watch)
    \/ \E i \in Insts : Get(i)
    \/ \E i \in Insts, p \in CallerPtrs : GetAssign(i, p)
    \/ \E i \in Insts, m \in OwnModes : Fopen(i, m)
    \/ \E i \in Insts, m \in OwnModes : Freopen(i, m)
    \/ \E i \in Insts : Fclose(i)
    \/ \E i \in Insts, f \in IOSample : IO(i, f)

Spec == Init /\ [][Next]_vars

\* the program built on CFile.hpp alone
InitCFile == Init /\ impl = "CFile"

SpecCFile == InitCFile /\ [][Next]_vars

\* ---- the mode translation on its own ----

\* the instance the mode specification opens files through
ModeInsts == {1}

\* every value of the enumeration is handed to every operation that opens
NextMode ==
    \/ \E i \in ModeInsts, form \in {"default", "value"} : DefaultConstruct(i, form)
    \/ \E i \in ModeInsts, m \in ModeValues : OpenConstruct(i, m)
    \/ \E i \in ModeInsts, m \in ModeValues : Fopen(i, m)
    \/ \E i \in ModeInsts, m \in ModeValues : Freopen(i, m)
    \/ \E i \in ModeInsts : Reset(i)
    \/ \E i \in ModeInsts : Destroy(i)

SpecMode == Init /\ [][NextMode]_vars

TypeOK ==
    /\ impl \in {"CFile", "cfile"}
    /\ live \in [Insts -> BOOLEAN]
    /\ stream \in [Insts -> Ptr]
    /\ status \in [Handles -> {"unused", "open", "closed"}]
    /\ closeCount \in [Handles -> 0..MaxClose]
    /\ trap \in {"none", "assert", "crash"}

\* ---- vocabulary of the properties ----

\* the operation just performed is op, with instance i as its object
Did(ops, i) == last'.op \in ops /\ last'.self = i

\* the platform calls of the operation just performed are one fclose on p
OneClose(calls, p) ==
    Len(calls) = 1 /\ calls[1].f = "fclose" /\ calls[1].p = p

MoveOps == {"move_ctor", "move_assign"}
OpenOps == {"open_ctor", "fopen", "freopen"}
CloseOps == {"reset", "fclose"}
AdoptOps == {"adopt_ctor", "reset_adopt", "tmpfile"}

\* the twelve rows of the mode table, by flag set
ModeTable ==
    [S \in {{Mode_Read}, {Mode_Write}, {Mode_Append},
            {Mode_Read, Mode_Extended}, {Mode_Write, Mode_Extended},
            {Mode_Append, Mode_Extended},
            {Mode_Read, Mode_Binary}, {Mode_Write, Mode_Binary},
            {Mode_Append, Mode_Binary},
            {Mode_Read, Mode_Binary, Mode_Extended},
            {Mode_Write, Mode_Binary, Mode_Extended},
            {Mode_Append, Mode_Binary, Mode_Extended}} |->
       (IF Mode_Read \in S THEN "r" ELSE IF Mode_Write \in S THEN "w" ELSE "a")
       \o (IF Mode_Binary \in S THEN "b" ELSE "")
       \o (IF Mode_Extended \in S THEN "+" ELSE "")]

\* ---- C1 ----
\* C1: in every reachable state at most one live instance holds any given
\* non-sentinel handle.
C1_ExclusiveOwnership ==
    \A i \in Insts, j \in Insts :
        (i # j /\ live[i] /\ live[j] /\ stream[i] # NULL) => stream[i] # stream[j]

\* ---- C2 ----
\* C2: for any instances a and b, a completed move of a into b (construction
\* or assignment) leaves b holding the handle a held and a empty, and a
\* non-sentinel handle b owned before is closed by one fclose call.
C2_MoveTransfers ==
    [][\A a \in Insts, b \in Insts :
          (Did(MoveOps, b) /\ last'.other = a /\ trap' = "none")
          => /\ stream'[b] = stream[a]
             /\ stream'[a] = NULL
             /\ (live[b] /\ stream[b] # NULL) => OneClose(last'.calls, stream[b])
             /\ (~live[b] \/ stream[b] = NULL) => last'.calls = <<>>]_vars

\* ---- C3 ----
\* the previous operation left instance i in one of the ways the claim lists
\* as empty: default-constructed, failed open, closed, released, moved-from
EmptyBy(i) ==
    \/ last.self = i /\ last.op = "default_ctor"
    \/ last.self = i /\ last.op \in OpenOps /\ last.calls # <<>> /\ last.ret = NULL
    \/ last.self = i /\ last.op \in CloseOps
    \/ last.self = i /\ last.op = "release"
    \/ last.other = i /\ last.op \in MoveOps

\* C3: destroying a non-empty instance makes exactly one fclose call, on the
\* held handle; destroying an empty instance (default-constructed, failed
\* open, closed, released or moved-from) makes no platform call.
C3_DestroyCloses ==
    [][\A i \in Insts :
          (Did({"dtor"}, i) /\ live[i])
          => /\ stream[i] # NULL => OneClose(last'.calls, stream[i])
             /\ (stream[i] = NULL \/ EmptyBy(i)) => last'.calls = <<>>]_vars

\* ---- C4 ----
\* the release step itself: the result is the handle held, the instance is
\* left empty, no platform call is made
ReleaseStep(i) ==
    Did({"release"}, i)
    => /\ last'.ret = stream[i]
       /\ stream'[i] = NULL
       /\ last'.calls = <<>>
       /\ closeCount' = closeCount /\ status' = status

\* an operation on the watched instance leaves the watched handle unclosed:
\* it makes no fclose call on it and the platform still has it open
WatchedStaysOpen ==
    /\ \A k \in DOMAIN last'.calls :
          last'.calls[k].f = "fclose" => last'.calls[k].p # rel.ptr
    /\ status[rel.ptr] = "open" => status'[rel.ptr] = "open"

\* C4 as stated: release() returns the held handle and empties the instance,
\* and no later operation on that instance, destruction included, closes the
\* released handle.
C4_ReleaseNeverClosed ==
    [][/\ \A i \in Insts : ReleaseStep(i)
       /\ (rel.ptr \in Handles /\ last'.self = rel.inst) => WatchedStaysOpen]_vars

\* C4 amended: release() returns the held handle and empties the instance,
\* and no later operation on that instance, destruction included, closes the
\* released handle unless the handle has been handed back to the instance
\* since (reset(FILE*), move assignment from a holder, a store through the
\* reference get() returns, or the result of a later open).
C4_ReleaseNotClosedUntilHandedBack ==
    [][/\ \A i \in Insts : ReleaseStep(i)
       /\ (rel.ptr \in Handles /\ ~rel.back /\ last'.self = rel.inst)
          => WatchedStaysOpen]_vars

\* an instance released an open handle, was not handed it back, and has been
\* destroyed with the handle still open and never closed
C4_Witness ==
    /\ last.op = "dtor" /\ last.self = rel.inst /\ trap = "none"
    /\ rel.ptr \in Handles /\ ~rel.back
    /\ status[rel.ptr] = "open" /\ closeCount[rel.ptr] = 0

\* ---- C5 ----
\* C5: reset() and fclose() on a non-empty instance make one fclose call,
\* empty the instance and return the platform's status; on an empty instance
\* they make no platform call and return 0.
C5_CloseIdempotent ==
    [][\A i \in Insts :
          (Did(CloseOps, i) /\ live[i])
          => IF stream[i] # NULL
             THEN /\ OneClose(last'.calls, stream[i])
                  /\ trap' = "none" => (stream'[i] = NULL /\ last'.ret = last'.calls[1].r)
             ELSE /\ last'.calls = <<>>
                  /\ last'.ret = 0
                  /\ stream'[i] = NULL
                  /\ trap' = "none"]_vars

\* ---- C6 ----
\* C6: a default-constructed instance is empty in both implementations and for
\* every form of default construction.
C6_DefaultEmpty ==
    last.op = "default_ctor" => stream[last.self] = NULL

\* ---- C7 ----
\* C7: the paths that wrap a raw handle (the FILE* constructor, reset(FILE*),
\* tmpfile()) never leave the instance empty, so an instance is empty only by
\* default construction, a failed open or reopen, close, release or a move.
C7_NoSentinelAdoption ==
    (last.op \in AdoptOps /\ trap = "none") => stream[last.self] # NULL

\* ---- C8 ----
\* C8: a pass-through operation or freopen on an empty instance is trapped by
\* an assertion before any platform call is made.
C8_EmptyIOTrapped ==
    [][\A i \in Insts :
          (Did({"io", "freopen"}, i) /\ live[i] /\ stream[i] = NULL)
          => (trap' = "assert" /\ last'.calls = <<>>)]_vars

\* ---- C9 ----
\* the flag sets whose union by operator| is the value v
FlagSetsOf(v) == {S \in SUBSET Flags : OrAll(S) = v}

\* C9: an operation that opens with one of the twelve flag combinations hands
\* the platform exactly the table's string; with any other value of the flag
\* set it traps before the platform open or reopen primitive is called.
C9_ModeTable ==
    last.op \in OpenOps =>
        \A S \in FlagSetsOf(last.arg) :
            IF S \in DOMAIN ModeTable
            THEN \/ /\ Len(last.calls) = 1
                    /\ last.calls[1].f \in {"fopen", "freopen"}
                    /\ last.calls[1].m = ModeTable[S]
                 \/ /\ last.op = "fopen" /\ trap = "assert" /\ last.calls = <<>>
            ELSE trap = "assert" /\ last.calls = <<>>

\* an open with Read+Binary+Extended reached the platform as "rb+"
C9_Witness ==
    /\ last.op \in OpenOps
    /\ last.arg = OrAll({Mode_Read, Mode_Binary, Mode_Extended})
    /\ Len(last.calls) = 1 /\ last.calls[1].m = "rb+"

\* ---- C10 ----
\* C10: fclose is called at most once on any handle (counted from the open
\* that returned it), and no live instance holds a handle that has been closed.
C10_ClosedOnce ==
    \A h \in Handles :
        /\ closeCount[h] <= 1
        /\ status[h] = "closed" => \A i \in Insts : live[i] => stream[i] # h

====
